---- MODULE Spec2Model ----
(***************************************************************************)
(* ChordCloud playlist pipeline: the three scripts app.py (keyword search  *)
(* plus catalogue recommender), app3.py (agent plus playlist creation      *)
(* behind a Streamlit front end) and main2.py (agent plus playlist         *)
(* creation as a plain script).                                            *)
(*                                                                         *)
(* A string is modelled as a sequence of tokens; the token NL is the       *)
(* newline character, every other token is a piece of text without a       *)
(* newline.  External services (Serper, the Spotify Web API, the agent)    *)
(* answer nondeterministically; a call that raises leaves the service      *)
(* state as it was.  Every external call is recorded in log.               *)
(***************************************************************************)
EXTENDS Integers, Sequences, FiniteSets, TLC

\* ---- bounds ----------------------------------------------------------
MaxHits == 2            \* most tracks a search / recommender answer holds
MaxSongs == 2           \* longest song_list handed straight to create_spotify_playlist
MaxAgentToolCalls == 1  \* most tool invocations inside one agent.chat
MaxNum == 2             \* largest slider position explored

\* ---- program constants -----------------------------------------------
SearchLimit == 5        \* limit=5 of song_recommendation_function
SliderMin == 1
SliderMax == 30

Min(a, b) == IF a < b THEN a ELSE b

\* ---- text ------------------------------------------------------------
NL == "\n"
Names == {"Song A by X", "Song B by Y"}
NoRecsText == <<"No song recommendations found.">>
NoSongsText == <<"No songs found.">>
NoSimilarText == <<"No similar songs found.">>
ErrorRecsText == <<"Error fetching recommendations.">>

\* f"{track['name']} by {track['artists'][0]['name']}"
TrackLine(track) == <<track>>

RECURSIVE Join(_)
\* "\n".join(lines)
Join(lines) ==
    IF lines = <<>> THEN <<>>
    ELSE IF Len(lines) = 1 THEN Head(lines)
    ELSE Head(lines) \o <<NL>> \o Join(Tail(lines))

RECURSIVE SplitFrom(_, _)
\* cur is the piece being read, s the rest of the string
SplitFrom(cur, s) ==
    IF s = <<>> THEN <<cur>>
    ELSE IF Head(s) = NL THEN <<cur>> \o SplitFrom(<<>>, Tail(s))
    ELSE SplitFrom(Append(cur, Head(s)), Tail(s))

\* str.split("\n")
Split(s) == SplitFrom(<<>>, s)

RECURSIVE MapTrackLine(_)
MapTrackLine(tracks) ==
    IF tracks = <<>> THEN <<>>
    ELSE <<TrackLine(Head(tracks))>> \o MapTrackLine(Tail(tracks))

\* all sequences over S of length 0..n
SeqUpTo(S, n) == UNION {[1..k -> S] : k \in 0..n}

\* ---- external services -------------------------------------------------
\* what an external call answers: a value, or an exception
Raise == [raised |-> TRUE]
Ok(v) == [raised |-> FALSE, val |-> v]
OkOf(S) == {Ok(v) : v \in S}
NoHit == "no_hit"
URIs == {"uri1", "uri2"}
PlaylistId == "pl1"

OAuthPlaylistModifyPrivate == "oauth:playlist-modify-private"
ClientCredentials == "client_credentials"
BearerKey == "bearer"

\* the client each call site uses
ClientAuthAsClientCredentials(file, client) == ClientCredentials
ClientAuth(file, client) ==
    IF file = "app" /\ client = "spotify" THEN ClientCredentials
    ELSE IF file = "app" /\ client = "sp" THEN OAuthPlaylistModifyPrivate
    ELSE IF file = "app3" THEN OAuthPlaylistModifyPrivate
    ELSE IF file = "main2" /\ client = "sp" THEN OAuthPlaylistModifyPrivate
    ELSE ClientCredentials

Call(site, op, auth, arg, resp) ==
    [site |-> site, op |-> op, auth |-> auth, arg |-> arg, resp |-> resp]

\* ---- values returned and shown ----------------------------------------
None == [kind |-> "none"]
Exc(what) == [kind |-> "exception", what |-> what]
\* f"Your playlist has been created! [Open Playlist](https://open.spotify.com/playlist/{playlist_id})"
Confirmation(playlist_id) ==
    [kind |-> "confirmation",
     text |-> <<"Your playlist has been created! [Open Playlist](https://open.spotify.com/playlist/", playlist_id, ")">>]

StError(what) == [fn |-> "st.error", body |-> what]
StSuccess(what) == [fn |-> "st.success", body |-> what]
StMarkdown(what) == [fn |-> "st.markdown", body |-> what]
StSubheader(what) == [fn |-> "st.subheader", body |-> what]
StWrite(i, what) == [fn |-> "st.write", body |-> <<i, what>>]

VARIABLES
    entry,          \* which script / function is run
    pc,             \* position of the run
    user_query, user_id,
    playlist_songs, \* text returned by song_recommendation_function
    song_list,      \* candidates handed to create_spotify_playlist
    idx,            \* position of the for loop over song_list
    track_uris,
    playlist,       \* the playlist in the streaming service
    relevant_songs, similar_songs, num_recommendations,
    ret,            \* value returned / exception raised by the pipeline function
    ui,             \* what the front end showed, in order
    stages,         \* pipeline stages passed, in order
    log             \* external calls issued, in order

vars == <<entry, pc, user_query, user_id, playlist_songs, song_list, idx,
          track_uris, playlist, relevant_songs, similar_songs,
          num_recommendations, ret, ui, stages, log>>

Entries == {"app.main", "app3.main", "main2.__main__", "main2.create_spotify_playlist"}
FileOf(e) == IF e = "app.main" THEN "app" ELSE IF e = "app3.main" THEN "app3" ELSE "main2"

CandidateTexts == {<<n>> : n \in Names} \cup {NoRecsText}

NoPlaylist == [exists |-> FALSE, id |-> "", owner |-> "", name |-> "", public |-> FALSE, tracks |-> <<>>]

Init ==
    /\ entry \in Entries
    /\ pc = "start"
    /\ user_query \in (IF entry \in {"app.main", "app3.main"} THEN {"", "relaxing"}
                       ELSE {"relaxing"})
    /\ user_id \in (IF entry = "app3.main" THEN {"", "alice"} ELSE {"alice"})
    /\ playlist_songs = <<>>
    /\ song_list \in (IF entry = "main2.create_spotify_playlist"
                      THEN SeqUpTo(CandidateTexts, MaxSongs) ELSE {<<>>})
    /\ idx = 0
    /\ track_uris = <<>>
    /\ playlist = NoPlaylist
    /\ relevant_songs = <<>>
    /\ similar_songs = <<>>
    /\ num_recommendations = 0
    /\ ret = None
    /\ ui = <<>>
    /\ stages = <<>>
    /\ log = <<>>


\* ---- app3.py / main2.py : front end and construction -------------------
RefinedQuery == <<"refined query">>
PlaylistName == "Generated Playlist"

\* main(): try ... st.success / st.markdown, except Exception ... st.error
MainReport(r) ==
    IF r.kind = "exception"
    THEN <<StError(r.what)>>
    ELSE <<StSuccess("Your personalized playlist has been generated!"), StMarkdown(r.text)>>

\* the end of a run: the value or exception of the pipeline function reaches its caller
Finish(r) ==
    /\ ret' = r
    /\ ui' = IF entry = "app3.main" THEN ui \o MainReport(r) ELSE ui
    /\ pc' = "done"

StageAfter(r) == IF r.kind = "exception" THEN "Failed" ELSE "Reported"

\* main() up to the construction of the generator
Main_Start ==
    /\ pc = "start"
    /\ entry \in {"app3.main", "main2.__main__"}
    /\ IF entry = "app3.main" /\ (user_query = "" \/ user_id = "")
       THEN /\ ui' = Append(ui, StError("Please enter both a Spotify user ID and a playlist query."))
            /\ stages' = <<"Received", "Failed">>
            /\ pc' = "done"
       ELSE /\ ui' = ui
            /\ stages' = <<"Received">>
            /\ pc' = "construct"
    /\ UNCHANGED <<entry, user_query, user_id, playlist_songs, song_list, idx, track_uris,
                   playlist, relevant_songs, similar_songs, num_recommendations, ret, log>>

\* PlaylistGeneratorWithLlamaIndex.__init__ ; main2.py names SpotifyClientCredentials
\* without importing it, so its constructor always raises NameError
ConstructOutcomes(e) == IF e = "main2.__main__" THEN {"NameError"} ELSE {"ok", "ValueError"}

Construct ==
    /\ pc = "construct"
    /\ \E o \in ConstructOutcomes(entry) :
         IF o = "ok"
         THEN /\ pc' = "chat"
              /\ UNCHANGED <<ret, stages>>
         ELSE \* raised outside main()'s try block
              /\ pc' = "crashed"
              /\ ret' = Exc(o)
              /\ stages' = Append(stages, "Failed")
    /\ UNCHANGED <<entry, user_query, user_id, playlist_songs, song_list, idx, track_uris,
                   playlist, relevant_songs, similar_songs, num_recommendations, ui, log>>

\* ---- generate_playlist --------------------------------------------------
TrackAnswers == SeqUpTo(Names, Min(SearchLimit, MaxHits))

\* song_recommendation_function: the text it returns for the tracks found
RecommendationText(tracks) ==
    IF tracks = <<>> THEN NoRecsText ELSE Join(MapTrackLine(tracks))

\* response = self.agent.chat(user_query): the agent may or may not invoke its tools
AgentChat ==
    /\ pc = "chat"
    /\ \E answers \in SeqUpTo(OkOf(TrackAnswers) \cup {Raise}, MaxAgentToolCalls), ok \in BOOLEAN :
         /\ log' = log \o [i \in 1..Len(answers) |->
                             Call("agent.chat", "search", ClientAuth(FileOf(entry), "self.sp"),
                                  RefinedQuery, answers[i])]
         /\ IF ok
            THEN /\ pc' = "recommend"
                 /\ UNCHANGED <<ret, ui, stages>>
            ELSE /\ Finish(Exc("agent.chat"))
                 /\ stages' = Append(stages, "Failed")
    /\ UNCHANGED <<entry, user_query, user_id, playlist_songs, song_list, idx, track_uris,
                   playlist, relevant_songs, similar_songs, num_recommendations>>

\* playlist_songs = self.agent.tools[1].fn(refined_query); song_list = playlist_songs.split("\n")
Recommend ==
    /\ pc = "recommend"
    /\ \E answer \in OkOf(TrackAnswers) \cup {Raise} :
         /\ log' = Append(log, Call("generate_playlist", "search",
                                    ClientAuth(FileOf(entry), "self.sp"), RefinedQuery, answer))
         /\ IF answer = Raise
            THEN /\ Finish(Exc("search"))
                 /\ stages' = Append(stages, "Failed")
                 /\ UNCHANGED <<playlist_songs, song_list>>
            ELSE /\ playlist_songs' = RecommendationText(answer.val)
                 /\ song_list' = Split(RecommendationText(answer.val))
                 /\ stages' = Append(stages, "CandidatesFetched")
                 /\ pc' = "create"
                 /\ UNCHANGED <<ret, ui>>
    /\ UNCHANGED <<entry, user_query, user_id, idx, track_uris,
                   playlist, relevant_songs, similar_songs, num_recommendations>>

\* ---- create_spotify_playlist ---------------------------------------------
\* for song in song_list: the loop is over when every song has been searched
LoopDoneAfterFirst(i, songs) == i > Min(1, Len(songs))
LoopDone(i, songs) == i > Len(songs)

\* track_uris.append(track_uri)
AppendUriDedup(uris, uri) == IF \E k \in 1..Len(uris) : uris[k] = uri THEN uris ELSE Append(uris, uri)
AppendUri(uris, uri) == Append(uris, uri)

\* if track_uris:
ShouldAppendAlways(uris) == TRUE
ShouldAppend(uris) == uris # <<>>

\* if search_results['tracks']['items']:
IsHit(resp) == ~resp.raised /\ resp.val \in URIs

\* sp.search is called outside any try block: its exception leaves the function
SearchErrorIgnored(resp) == FALSE
SearchErrorPropagates(resp) == resp = Raise

\* what the function yields once playlist_add_items returned or raised
AddItemsResultSwallowed(ok, playlist_id) == Confirmation(playlist_id)
AddItemsResult(ok, playlist_id) ==
    IF ok THEN Confirmation(playlist_id) ELSE Exc("playlist_add_items")

CSP_Site == "create_spotify_playlist"
CSP_Auth == ClientAuth(FileOf(entry), "sp")

\* the direct call of main2.create_spotify_playlist(user_id, playlist_name, song_list)
CSP_Call ==
    /\ pc = "start"
    /\ entry = "main2.create_spotify_playlist"
    /\ pc' = "create"
    /\ stages' = <<"Received", "CandidatesFetched">>
    /\ UNCHANGED <<entry, user_query, user_id, playlist_songs, song_list, idx, track_uris,
                   playlist, relevant_songs, similar_songs, num_recommendations, ret, ui, log>>

\* playlist = sp.user_playlist_create(user_id, playlist_name, public=False)
CSP_Create ==
    /\ pc = "create"
    /\ \E ok \in BOOLEAN :
         /\ log' = Append(log, Call(CSP_Site, "user_playlist_create", CSP_Auth,
                                    <<user_id, PlaylistName>>, IF ok THEN Ok(PlaylistId) ELSE Raise))
         /\ IF ok
            THEN /\ playlist' = [exists |-> TRUE, id |-> PlaylistId, owner |-> user_id,
                                 name |-> PlaylistName, public |-> FALSE, tracks |-> <<>>]
                 /\ idx' = 1
                 /\ track_uris' = <<>>
                 /\ pc' = "resolve"
                 /\ stages' = stages \o <<"PlaylistCreated">>
                                \o (IF LoopDone(1, song_list) THEN <<"TracksResolved">> ELSE <<>>)
                 /\ UNCHANGED <<ret, ui>>
            ELSE /\ Finish(Exc("user_playlist_create"))
                 /\ stages' = Append(stages, "Failed")
                 /\ UNCHANGED <<playlist, idx, track_uris>>
    /\ UNCHANGED <<entry, user_query, user_id, playlist_songs, song_list,
                   relevant_songs, similar_songs, num_recommendations>>

\* one turn of the loop: search_results = sp.search(q=song, type="track", limit=1)
CSP_Search ==
    /\ pc = "resolve"
    /\ ~LoopDone(idx, song_list)
    /\ \E resp \in OkOf(URIs \cup {NoHit}) \cup {Raise} :
         /\ log' = Append(log, Call(CSP_Site, "search", CSP_Auth, song_list[idx], resp))
         /\ IF SearchErrorPropagates(resp)
            THEN /\ Finish(Exc("search"))
                 /\ stages' = Append(stages, "Failed")
                 /\ UNCHANGED <<idx, track_uris>>
            ELSE /\ track_uris' = IF IsHit(resp) THEN AppendUri(track_uris, resp.val) ELSE track_uris
                 /\ idx' = idx + 1
                 /\ stages' = IF LoopDone(idx + 1, song_list)
                              THEN Append(stages, "TracksResolved") ELSE stages
                 /\ UNCHANGED <<pc, ret, ui>>
    /\ UNCHANGED <<entry, user_query, user_id, playlist_songs, song_list,
                   playlist, relevant_songs, similar_songs, num_recommendations>>

\* if track_uris: sp.playlist_add_items(playlist_id, track_uris) ; return the confirmation
CSP_AddItems ==
    /\ pc = "resolve"
    /\ LoopDone(idx, song_list)
    /\ ShouldAppend(track_uris)
    /\ \E ok \in BOOLEAN :
         /\ log' = Append(log, Call(CSP_Site, "playlist_add_items", CSP_Auth,
                                    <<playlist.id, track_uris>>, IF ok THEN Ok("ok") ELSE Raise))
         /\ playlist' = IF ok THEN [playlist EXCEPT !.tracks = @ \o track_uris] ELSE playlist
         /\ Finish(AddItemsResult(ok, playlist.id))
         /\ stages' = Append(stages, StageAfter(AddItemsResult(ok, playlist.id)))
    /\ UNCHANGED <<entry, user_query, user_id, playlist_songs, song_list, idx, track_uris,
                   relevant_songs, similar_songs, num_recommendations>>

\* track_uris is empty: no append, the confirmation is returned all the same
CSP_ReturnWithoutAppend ==
    /\ pc = "resolve"
    /\ LoopDone(idx, song_list)
    /\ ~ShouldAppend(track_uris)
    /\ Finish(Confirmation(playlist.id))
    /\ stages' = Append(stages, "Reported")
    /\ UNCHANGED <<entry, user_query, user_id, playlist_songs, song_list, idx, track_uris,
                   playlist, relevant_songs, similar_songs, num_recommendations, log>>


\* ---- app.py -------------------------------------------------------------
NoTitle == "no_title"
OrganicAnswers == SeqUpTo(Names \cup {NoTitle}, MaxHits)

RECURSIVE Titles(_)
\* [result['title'] for result in search_results.get('organic', []) if 'title' in result]
Titles(organic) ==
    IF organic = <<>> THEN <<>>
    ELSE (IF Head(organic) = NoTitle THEN <<>> ELSE <<<<Head(organic)>>>>) \o Titles(Tail(organic))

\* create_playlist: a two-element tuple when nothing was found, the list of titles otherwise
CreatePlaylist(organic) ==
    IF Titles(organic) = <<>> THEN <<NoSongsText, <<>>>> ELSE Titles(organic)

\* truth value of a list or tuple
Truthy(x) == Len(x) > 0

\* the recommendations as recommend_similar_songs returns them
SimilarSongs(tracks) == MapTrackLine(tracks)

\* st.subheader("Recommended Songs:") and one st.write per song
Display(songs) ==
    <<StSubheader("Recommended Songs:")>> \o [i \in 1..Len(songs) |-> StWrite(i, songs[i])]

\* main() through create_playlist / fetch_playlist_data up to the slider
App_Fetch ==
    /\ pc = "start"
    /\ entry = "app.main"
    /\ IF user_query = ""
       THEN /\ pc' = "done"
            /\ UNCHANGED <<relevant_songs, num_recommendations, ui, stages, log>>
       ELSE \E answer \in OkOf(OrganicAnswers) \cup {Raise} :
              LET organic == IF answer = Raise THEN <<>> ELSE answer.val
                  songs == CreatePlaylist(organic)
              IN /\ log' = Append(log, Call("fetch_playlist_data", "requests.get", BearerKey,
                                            user_query, answer))
                 /\ relevant_songs' = songs
                 /\ ui' = IF answer = Raise
                          THEN Append(ui, StError("Error fetching data from Serper")) ELSE ui
                 /\ IF Truthy(songs)
                    THEN /\ \E n \in SliderMin..Min(SliderMax, MaxNum) : num_recommendations' = n
                         /\ stages' = <<"Received", "CandidatesFetched">>
                         /\ pc' = "seed"
                    ELSE /\ num_recommendations' = num_recommendations
                         /\ stages' = <<"Received", "Failed">>
                         /\ pc' = "done"
    /\ UNCHANGED <<entry, user_query, user_id, playlist_songs, song_list, idx, track_uris,
                   playlist, similar_songs, ret>>

\* recommend_similar_songs: spotify.search(q=song_title, type='track', limit=1)
App_SeedSearch ==
    /\ pc = "seed"
    /\ \E resp \in OkOf(URIs \cup {NoHit}) \cup {Raise} :
         /\ log' = Append(log, Call("recommend_similar_songs", "search",
                                    ClientAuth("app", "spotify"), relevant_songs[1], resp))
         /\ IF resp = Raise
            THEN /\ similar_songs' = <<ErrorRecsText>>
                 /\ ui' = Append(ui, StError("Error getting recommendations")) \o Display(<<ErrorRecsText>>)
                 /\ stages' = Append(stages, "Reported")
                 /\ pc' = "done"
            ELSE IF resp.val = NoHit
            THEN /\ similar_songs' = <<NoSimilarText>>
                 /\ ui' = ui \o Display(<<NoSimilarText>>)
                 /\ stages' = Append(stages, "Reported")
                 /\ pc' = "done"
            ELSE /\ pc' = "recs"
                 /\ UNCHANGED <<similar_songs, ui, stages>>
    /\ UNCHANGED <<entry, user_query, user_id, playlist_songs, song_list, idx, track_uris,
                   playlist, relevant_songs, num_recommendations, ret>>

\* recommend_similar_songs: spotify.recommendations(seed_tracks=[track_id], limit=num_recommendations),
\* then main() shows the songs and builds the (unused) OAuth client
App_Recommendations ==
    /\ pc = "recs"
    /\ \E answer \in OkOf(SeqUpTo(Names, Min(num_recommendations, MaxHits))) \cup {Raise} :
         LET songs == IF answer = Raise THEN <<ErrorRecsText>> ELSE SimilarSongs(answer.val)
         IN /\ log' = Append(log, Call("recommend_similar_songs", "recommendations",
                                       ClientAuth("app", "spotify"), num_recommendations, answer))
            /\ similar_songs' = songs
            /\ ui' = (IF answer = Raise
                      THEN Append(ui, StError("Error getting recommendations")) ELSE ui)
                     \o Display(songs)
            /\ stages' = Append(stages, "Reported")
            /\ pc' = "done"
    /\ UNCHANGED <<entry, user_query, user_id, playlist_songs, song_list, idx, track_uris,
                   playlist, relevant_songs, num_recommendations, ret>>

\* ---- specification ------------------------------------------------------
Next ==
    \/ Main_Start
    \/ Construct
    \/ AgentChat
    \/ Recommend
    \/ CSP_Call
    \/ CSP_Create
    \/ CSP_Search
    \/ CSP_AddItems
    \/ CSP_ReturnWithoutAppend
    \/ App_Fetch
    \/ App_SeedSearch
    \/ App_Recommendations

Spec == Init /\ [][Next]_vars


\* ---- reading the log ------------------------------------------------------
IsCSP(c, op) == c.site = CSP_Site /\ c.op = op
CSPCreates == SelectSeq(log, LAMBDA c : IsCSP(c, "user_playlist_create"))
CSPSearches == SelectSeq(log, LAMBDA c : IsCSP(c, "search"))
CSPAdds == SelectSeq(log, LAMBDA c : IsCSP(c, "playlist_add_items"))
SearchesBefore(i) == SelectSeq(SubSeq(log, 1, i - 1), LAMBDA c : IsCSP(c, "search"))

RECURSIVE Hits(_)
\* the top hits of the searches that found one, in the order of the searches
Hits(searches) ==
    IF searches = <<>> THEN <<>>
    ELSE (IF ~Head(searches).resp.raised /\ Head(searches).resp.val # NoHit
          THEN <<Head(searches).resp.val>> ELSE <<>>) \o Hits(Tail(searches))

\* every candidate of song_list was searched, in order, and none of the searches raised
AllCandidatesSearched(searches) ==
    /\ Len(searches) = Len(song_list)
    /\ \A k \in 1..Len(searches) : searches[k].arg = song_list[k] /\ ~searches[k].resp.raised

MutatingOps == {"user_playlist_create", "playlist_add_items"}
ReadOnlyOps == {"search", "recommendations"}

\* stages is a strictly ascending walk through order, with an optional final Failed
RECURSIVE Ascending(_, _)
Ascending(walk, order) ==
    IF walk = <<>> THEN TRUE
    ELSE IF order = <<>> THEN FALSE
    ELSE IF Head(walk) = Head(order) THEN Ascending(Tail(walk), Tail(order))
    ELSE Ascending(walk, Tail(order))

WithoutFailed(walk) ==
    IF walk # <<>> /\ walk[Len(walk)] = "Failed" THEN SubSeq(walk, 1, Len(walk) - 1) ELSE walk

InOrder(walk, order) == Ascending(WithoutFailed(walk), order)


\* ---- C1 -------------------------------------------------------------------
\* C1: when the catalogue search of generate_playlist finds no tracks, the run
\* ends as Failed, user_playlist_create is never called and no playlist exists.
C1_NoCandidatesNoPlaylist ==
    (\E i \in 1..Len(log) : log[i].site = "generate_playlist" /\ log[i].resp = Ok(<<>>))
        => /\ CSPCreates = <<>>
           /\ ~playlist.exists
           /\ (pc = "done" => ret.kind = "exception" /\ stages[Len(stages)] = "Failed")

\* ---- C2 -------------------------------------------------------------------
\* C2: the identifiers handed to playlist_add_items, and the tracks of the playlist
\* once the call succeeded, are the top hits of the candidates that resolved, one
\* per resolved candidate, in candidate order, duplicates kept.
C2_AppendedAreResolvedInOrder ==
    \A i \in 1..Len(log) :
        IsCSP(log[i], "playlist_add_items")
            => /\ AllCandidatesSearched(SearchesBefore(i))
               /\ log[i].arg[2] = Hits(SearchesBefore(i))
               /\ Len(log[i].arg[2]) =
                    Cardinality({k \in 1..Len(song_list) : SearchesBefore(i)[k].resp.val \in URIs})
               /\ (~log[i].resp.raised => playlist.tracks = Hits(SearchesBefore(i)))

\* C2 witness: two candidates resolved to the same identifier and both were appended
C2_Witness ==
    /\ pc = "done"
    /\ ret.kind = "confirmation"
    /\ Len(playlist.tracks) = 2
    /\ playlist.tracks[1] = playlist.tracks[2]

\* ---- C3 -------------------------------------------------------------------
\* C3: when no candidate resolves, the playlist exists with zero tracks, no append
\* is issued, and what is reported differs from the full-success confirmation and
\* is not an error.
C3_AllUnresolvedIsPartialSuccess ==
    (/\ pc = "done"
     /\ playlist.exists
     /\ song_list # <<>>
     /\ AllCandidatesSearched(CSPSearches)
     /\ Hits(CSPSearches) = <<>>)
        => /\ playlist.tracks = <<>>
           /\ CSPAdds = <<>>
           /\ ret.kind # "exception"
           /\ ret # Confirmation(playlist.id)
           /\ ui # MainReport(Confirmation(playlist.id))

\* ---- C4 -------------------------------------------------------------------
\* C4: recommend_similar_songs never returns an empty sequence; an unresolved seed
\* and an empty recommender answer both give the single "no results" entry.
C4_NeverEmpty ==
    (entry = "app.main" /\ pc = "done" /\ Len(log) >= 2)
        => /\ similar_songs # <<>>
           /\ ((log[Len(log)].op = "search" /\ log[Len(log)].resp = Ok(NoHit))
                 => similar_songs = <<NoSimilarText>>)
           /\ ((log[Len(log)].op = "recommendations" /\ log[Len(log)].resp = Ok(<<>>))
                 => similar_songs = <<NoSimilarText>>)

\* ---- C5 -------------------------------------------------------------------
\* C5: when the keyword search request fails, the candidate source yields an empty
\* sequence and the run stops: no catalogue call follows and no playlist is created.
C5_FetchFailureStops ==
    (entry = "app.main" /\ log # <<>> /\ log[1].resp = Raise)
        => /\ relevant_songs = <<>>
           /\ Len(log) = 1
           /\ pc = "done"
           /\ ~playlist.exists

\* ---- C6 -------------------------------------------------------------------
OriginalOrder == <<"Received", "CandidatesFetched", "TracksResolved", "PlaylistCreated", "Reported">>
CodeOrder == <<"Received", "CandidatesFetched", "PlaylistCreated", "TracksResolved", "Reported">>

\* C6 as stated: stages are passed in the order Received, CandidatesFetched,
\* TracksResolved, PlaylistCreated, Reported (or Failed), and user_playlist_create
\* is issued only after every candidate has been resolved.
C6_Original ==
    /\ InOrder(stages, OriginalOrder)
    /\ \A i \in 1..Len(log) :
         IsCSP(log[i], "user_playlist_create") => Len(SearchesBefore(i)) = Len(song_list)

\* C6 amended: stages are passed in the order Received, CandidatesFetched,
\* PlaylistCreated, TracksResolved, Reported (or Failed), none twice; the playlist is
\* created before any candidate is searched and the append follows the last search.
C6_Amended ==
    /\ InOrder(stages, CodeOrder)
    /\ \A i \in 1..Len(log) :
         /\ IsCSP(log[i], "user_playlist_create") => SearchesBefore(i) = <<>>
         /\ IsCSP(log[i], "search") =>
              \E j \in 1..(i - 1) : IsCSP(log[j], "user_playlist_create") /\ ~log[j].resp.raised
         /\ IsCSP(log[i], "playlist_add_items") => Len(SearchesBefore(i)) = Len(song_list)
    /\ (\E k \in 1..Len(stages) : stages[k] = "TracksResolved")
         => Len(CSPSearches) = Len(song_list)

\* C6 witness: a run that created the playlist, then resolved two candidates, then reported
C6_Witness ==
    /\ stages = CodeOrder
    /\ Len(song_list) = 2
    /\ Len(CSPAdds) = 1

\* ---- C7 -------------------------------------------------------------------
\* C7: when playlist_add_items raises, the run ends with an error and without a
\* confirmation, the created playlist still exists with zero tracks, and no call
\* (no delete, no second append) follows.
C7_AppendFailureLeavesEmptyPlaylist ==
    \A i \in 1..Len(log) :
        (IsCSP(log[i], "playlist_add_items") /\ log[i].resp.raised)
            => /\ i = Len(log)
               /\ Len(CSPAdds) = 1
               /\ pc = "done"
               /\ ret.kind = "exception"
               /\ playlist.exists /\ playlist.tracks = <<>>
               /\ stages[Len(stages)] = "Failed"
               /\ (entry = "app3.main" =>
                     /\ ui # <<>> /\ ui[Len(ui)].fn = "st.error"
                     /\ \A k \in 1..Len(ui) : ui[k].fn \notin {"st.success", "st.markdown"})

\* C7 witness: the front end showed the error of a failed append
C7_Witness ==
    /\ entry = "app3.main"
    /\ CSPAdds # <<>> /\ CSPAdds[1].resp.raised
    /\ ui = <<StError("playlist_add_items")>>

C9_MutationOnlyWithUserOAuth ==
    \A i \in 1..Len(log) :
        /\ log[i].op \in MutatingOps => log[i].auth = OAuthPlaylistModifyPrivate
        /\ log[i].auth = ClientCredentials => log[i].op \in ReadOnlyOps

\* C9 witness: a playlist was created and filled
C9_Witness ==
    /\ \E i \in 1..Len(log) : log[i].op = "user_playlist_create"
    /\ \E i \in 1..Len(log) : log[i].op = "playlist_add_items" /\ ~log[i].resp.raised

\* ---- C10 ------------------------------------------------------------------
\* C10: when a search of create_spotify_playlist raises, the run ends with that
\* error, no append is issued whatever resolved before, the playlist exists and is
\* empty, and no confirmation is returned.
C10_SearchErrorAborts ==
    \A i \in 1..Len(log) :
        (IsCSP(log[i], "search") /\ log[i].resp.raised)
            => /\ i = Len(log)
               /\ pc = "done"
               /\ ret = Exc("search")
               /\ CSPAdds = <<>>
               /\ playlist.exists /\ playlist.tracks = <<>>
               /\ \A k \in 1..Len(ui) : ui[k].fn \notin {"st.success", "st.markdown"}

\* C10 witness: the second search raised after the first candidate had resolved
C10_Witness ==
    /\ Len(CSPSearches) = 2
    /\ CSPSearches[2].resp.raised
    /\ track_uris # <<>>

====
